---- MODULE Spec2Model ----
(***************************************************************************)
(* A model of network/src/validator_network/network_builder.rs: the        *)
(* NetworkBuilder (a fluent configuration object whose add_* methods spawn *)
(* component tasks and whose build() starts the PeerManager), and of the   *)
(* components it wires together.  ConnectivityManager, PeerManager,        *)
(* LibraNetTransport, Discovery and HealthChecker live in other files of   *)
(* the repository; what they do is taken from the design document.         *)
(***************************************************************************)
EXTENDS Integers, Sequences, FiniteSets, TLC

\* ------------------------------------------------------------------ bounds
\* Builder calls made on one NetworkBuilder before the run is cut off.
MaxCalls == 4
\* Handshakes and registry updates observed after build().
MaxRuntimeSteps == 2
MaxDials == 3
MaxUpdates == 2
MaxFailures == 66
\* Registry updates made while readers run.
MaxWrites == 2
\* Requests the command channel holds per peer in the scaled-down network.
MaxQueued == 1

\* --------------------------------------------------------- program constants
NETWORK_CHANNEL_SIZE == 1024
DISCOVERY_INTERVAL_MS == 1000
PING_INTERVAL_MS == 1000
PING_TIMEOUT_MS == 10000
CONNECTIVITY_CHECK_INTERNAL_MS == 5000
PING_FAILURES_TOLERATED == 10
MAX_CONCURRENT_NETWORK_REQS == 100
MAX_CONCURRENT_NETWORK_NOTIFS == 100
MAX_CONNECTION_DELAY_MS == 10 * 60 * 1000
HANDSHAKE_VERSION == 0

\* ------------------------------------------------------------------ values
\* Option<T>
None == [some |-> FALSE]
Some(x) == [some |-> TRUE, val |-> x]

\* PeerId::default() is the all-zero id.
PeerIdDefault == 0
\* Remote peers a registry or a seed list can name.
RemotePeers == {1, 2}
\* PeerIds a caller can give NetworkBuilder::new.
CallerPeerIds == {PeerIdDefault, 7}

\* x25519 private keys; public_key() of the key.
PrivateKeys == {1, 2}
x25519_public_key(k) == 10 + k
\* PeerId::from_identity_public_key: a function of the public key alone.
from_identity_public_key(pk) == 100 + pk
\* The public key a remote peer authenticates with; 13 belongs to no peer.
RemoteKeyOf(p) == 10 + p
RemoteKeys == {RemoteKeyOf(1), 13}

\* NetworkAddress: a sequence of Protocol segments.
Seg(proto) == [proto |-> proto, arg |-> 0]
Addr1(a) == <<Seg(a)>>
Addr2(a, b) == <<Seg(a), Seg(b)>>
Addr3(a, b, c) == <<Seg(a), Seg(b), Seg(c)>>
ListenAddresses ==
    { <<>>, Addr1("Ip4"), Addr2("Ip4", "Tcp"), Addr2("Ip6", "Tcp"),
      Addr1("Memory"), Addr2("Dns4", "Tcp"), Addr3("Ip4", "Tcp", "NoiseIK") }
AdvertisedAddresses == { Addr2("Dns4", "Tcp") }
\* NetworkAddress::append_prod_protos
append_prod_protos(addr, pubkey, version) ==
    addr \o <<[proto |-> "NoiseIK", arg |-> pubkey],
              [proto |-> "Handshake", arg |-> version]>>

\* AuthenticationMode, and the unset Option<AuthenticationMode>.
AuthNone == [mode |-> "None", key |-> 0]
AuthenticationModes ==
    [mode : {"ServerOnly", "Mutual"}, key : PrivateKeys]
\* AuthenticationMode::public_key
public_key(auth) == x25519_public_key(auth.key)

\* HashMap<PeerId, NetworkPublicKeys> values a caller can pass.
TrustedPeerMaps ==
    { [p \in S |-> RemoteKeyOf(p)] : S \in {{}, {1}, {1, 2}} }
\* HashMap<PeerId, Vec<NetworkAddress>> values a caller can pass.
SeedPeerMaps ==
    { [p \in S |-> <<Addr2("Ip4", "Tcp")>>] : S \in {{}, {2}} }
EmptyMap == [p \in {} |-> 0]

ProtocolIds == {"ConsensusRpc", "MempoolDirectSend", "DiscoveryDirectSend",
                "HealthCheckerRpc"}
\* (rpc_protocols, direct_send_protocols) an application registers.
HandlerInputs ==
    { <<(<<"ConsensusRpc">>), (<<>>)>>,
      <<(<<"ConsensusRpc">>), (<<"MempoolDirectSend">>)>> }
IntervalInputs == {250}

Range(s) == { s[i] : i \in DOMAIN s }

\* Arc<RwLock<HashMap<..>>>: a handle on the one shared map (ref), set apart
\* from a private copy of the map's content at some moment (not ref).
ArcHandle == [ref |-> TRUE, val |-> EmptyMap]
Snapshot(m) == [ref |-> FALSE, val |-> m]

VARIABLES
    nb,         \* the NetworkBuilder's fields
    registry,   \* the map inside the Arc<RwLock<..>> created by new()
    tasks,      \* what executor.spawn has started, in order
    pm,         \* the PeerManager build_with_transport started (or not yet)
    phase,      \* "building" | "running" | "panicked"
    panic,      \* the panic message, once phase = "panicked"
    ncalls,     \* builder calls made so far
    hist,       \* history: the values the setters were last called with
    regs,       \* history: the connection-event receivers handed out, in order
    conns,      \* history: the handshakes the transport has run, with outcome
    delivered,  \* connection events each receiver has been sent
    nsteps,     \* runtime steps taken so far
    cm,         \* the running ConnectivityManager: its arguments and records
    cmds,       \* per peer, the ConnectionRequests queued for the PeerManager
    notifs,     \* connection notifications queued for the ConnectivityManager
    gw,         \* per peer, whether the PeerManager holds a connection
    ghost,      \* history kept for the properties
    env,        \* the limits of this run
    rwlock      \* the registry's RwLock, its writer and its readers

cmvars == <<cm, cmds, notifs, gw, ghost, env, rwlock>>
buildervars == <<nb, tasks, pm, phase, panic, ncalls, hist, regs, conns,
                 delivered, nsteps>>
vars == <<nb, registry, tasks, pm, phase, panic, ncalls, hist, regs, conns,
          delivered, nsteps, cm, cmds, notifs, gw, ghost, env, rwlock>>

\* A panic: its message, the address the message prints (if any) and the
\* source line of the expect() or panic!() that raised it.
NoPanic == [msg |-> "", addr |-> None, line |-> 0]
Panic(msg, line) == [msg |-> msg, addr |-> None, line |-> line]
PmNotStarted == [started |-> FALSE]

\* What a handle reads at this moment (RwLock::read).
Deref(h) == IF h.ref THEN registry ELSE h.val

\* Who reads the registry: the ConnectivityManager's reconciliation pass and
\* the transport's handshake verification.
Readers == {"pass", "handshake"}
\* RwLock::new(HashMap::new()): not held; no write or read under way.
RwLockNew ==
    [ writer |-> [pc |-> "idle", map |-> EmptyMap],
      readers |-> [r \in Readers |->
                      [pc |-> "idle", view |-> EmptyMap, during |-> {}]],
      writes |-> 0 ]

\* NetworkBuilder::new
NetworkBuilderNew(peer_id, listen_address) ==
    [ peer_id |-> peer_id,
      listen_address |-> listen_address,
      advertised_address |-> None,
      seed_peers |-> EmptyMap,
      trusted_peers |-> ArcHandle,
      authentication_mode |-> AuthNone,
      channel_size |-> NETWORK_CHANNEL_SIZE,
      direct_send_protocols |-> <<>>,
      rpc_protocols |-> <<>>,
      upstream_handlers |-> [p \in {} |-> 0],
      connection_event_handlers |-> <<>>,
      conn_mgr_reqs_tx |-> None,
      discovery_interval_ms |-> DISCOVERY_INTERVAL_MS,
      ping_interval_ms |-> PING_INTERVAL_MS,
      ping_timeout_ms |-> PING_TIMEOUT_MS,
      ping_failures_tolerated |-> PING_FAILURES_TOLERATED,
      connectivity_check_interval_ms |-> CONNECTIVITY_CHECK_INTERNAL_MS,
      max_concurrent_network_reqs |-> MAX_CONCURRENT_NETWORK_REQS,
      max_concurrent_network_notifs |-> MAX_CONCURRENT_NETWORK_NOTIFS,
      max_connection_delay_ms |-> MAX_CONNECTION_DELAY_MS,
      connection_reqs |-> [style |-> "FIFO", size |-> NETWORK_CHANNEL_SIZE],
      next_channel |-> 1 ]

Init ==
    /\ \E id \in CallerPeerIds, la \in ListenAddresses :
           nb = NetworkBuilderNew(id, la)
    /\ registry = EmptyMap
    /\ tasks = <<>>
    /\ pm = PmNotStarted
    /\ phase = "building"
    /\ panic = NoPanic
    /\ ncalls = 0
    /\ hist = [ auth |-> AuthNone,
                connectivity_check_interval_ms |-> CONNECTIVITY_CHECK_INTERNAL_MS,
                discovery_interval_ms |-> DISCOVERY_INTERVAL_MS,
                seed_peers |-> EmptyMap, advertised_address |-> None,
                protocols |-> {}, gossip_calls |-> 0, built |-> FALSE ]
    /\ regs = <<>>
    /\ conns = <<>>
    /\ delivered = [c \in {} |-> 0]
    /\ nsteps = 0
    /\ cm = [started |-> FALSE]
    /\ cmds = EmptyMap
    /\ notifs = <<>>
    /\ gw = EmptyMap
    /\ ghost = [updates |-> 0, peer |-> EmptyMap]
    /\ env = [max_dials |-> 0, max_updates |-> 0]
    /\ rwlock = RwLockNew

\* A builder method can be called: the builder exists (build() consumes it)
\* and no earlier call has panicked.
Callable == phase = "building" /\ ncalls < MaxCalls

\* A new receiver starts with nothing delivered.
Subscribed(rxs) ==
    [c \in DOMAIN delivered \cup rxs |->
        IF c \in DOMAIN delivered THEN delivered[c] ELSE 0]

\* ---------------------------------------------------------------- setters
\* NetworkBuilder::authentication_mode
authentication_mode(am) ==
    /\ Callable
    /\ nb' = [nb EXCEPT !.authentication_mode = am]
    /\ ncalls' = ncalls + 1
    /\ hist' = [hist EXCEPT !.auth = am]
    /\ UNCHANGED <<registry, tasks, pm, phase, panic, regs, conns, delivered, nsteps>>
    /\ UNCHANGED cmvars

\* NetworkBuilder::advertised_address
advertised_address(a) ==
    /\ Callable
    /\ nb' = [nb EXCEPT !.advertised_address = Some(a)]
    /\ ncalls' = ncalls + 1
    /\ hist' = [hist EXCEPT !.advertised_address = Some(a)]
    /\ UNCHANGED <<registry, tasks, pm, phase, panic, regs, conns, delivered, nsteps>>
    /\ UNCHANGED cmvars

\* A write that extends the map in place of replacing it.
trusted_peers_extend(old, m) ==
    [p \in DOMAIN old \cup DOMAIN m |-> IF p \in DOMAIN m THEN m[p] ELSE old[p]]

\* *self.trusted_peers.write().unwrap() = trusted_peers: the map behind the
\* Arc after the assignment.
trusted_peers_write(old, m) == m

\* NetworkBuilder::trusted_peers: writes through the Arc, replacing the map.
trusted_peers(m) ==
    /\ Callable
    /\ registry' = trusted_peers_write(registry, m)
    /\ ncalls' = ncalls + 1
    /\ UNCHANGED <<hist, nb, tasks, pm, phase, panic, regs, conns, delivered, nsteps>>
    /\ UNCHANGED cmvars

\* NetworkBuilder::seed_peers
seed_peers(m) ==
    /\ Callable
    /\ nb' = [nb EXCEPT !.seed_peers = m]
    /\ ncalls' = ncalls + 1
    /\ hist' = [hist EXCEPT !.seed_peers = m]
    /\ UNCHANGED <<registry, tasks, pm, phase, panic, regs, conns, delivered, nsteps>>
    /\ UNCHANGED cmvars

\* NetworkBuilder::discovery_interval_ms
discovery_interval_ms(v) ==
    /\ Callable
    /\ nb' = [nb EXCEPT !.discovery_interval_ms = v]
    /\ ncalls' = ncalls + 1
    /\ hist' = [hist EXCEPT !.discovery_interval_ms = v]
    /\ UNCHANGED <<registry, tasks, pm, phase, panic, regs, conns, delivered, nsteps>>
    /\ UNCHANGED cmvars

\* NetworkBuilder::connectivity_check_interval_ms
connectivity_check_interval_ms(v) ==
    /\ Callable
    /\ nb' = [nb EXCEPT !.connectivity_check_interval_ms = v]
    /\ ncalls' = ncalls + 1
    /\ hist' = [hist EXCEPT !.connectivity_check_interval_ms = v]
    /\ UNCHANGED <<registry, tasks, pm, phase, panic, regs, conns, delivered, nsteps>>
    /\ UNCHANGED cmvars

\* NetworkBuilder::conn_mgr_reqs_tx
conn_mgr_reqs_tx(b) == b.conn_mgr_reqs_tx

\* NetworkBuilder::supported_protocols: the SupportedProtocols bit set.
supported_protocols(b) ==
    Range(b.direct_send_protocols) \cup Range(b.rpc_protocols)

\* ----------------------------------------------------------- registration
\* add_protocol_handler without the auto-subscription to connection events.
add_protocol_handler_no_subscribe(b, rpc, ds) ==
    LET network_notifs_tx == b.next_channel
        listed == Range(rpc) \cup Range(ds)
    IN  [b EXCEPT
            !.direct_send_protocols = @ \o ds,
            !.rpc_protocols = @ \o rpc,
            !.upstream_handlers =
                [p \in DOMAIN @ \cup listed |->
                    IF p \in listed THEN network_notifs_tx ELSE @[p]],
            !.next_channel = @ + 2]

\* add_protocol_handler that leaves a protocol with the handler it has.
add_protocol_handler_keep_first(b, rpc, ds) ==
    LET network_notifs_tx == b.next_channel
        connection_notifs_tx == b.next_channel + 1
        listed == Range(rpc) \cup Range(ds)
    IN  [b EXCEPT
            !.direct_send_protocols = @ \o ds,
            !.rpc_protocols = @ \o rpc,
            !.upstream_handlers =
                [p \in DOMAIN @ \cup listed |->
                    IF p \in DOMAIN @ THEN @[p] ELSE network_notifs_tx],
            !.connection_event_handlers = Append(@, connection_notifs_tx),
            !.next_channel = @ + 2]

\* The builder after add_protocol_handler(rpc, ds): channel next_channel is
\* the handler's network_notifs channel, next_channel + 1 its connection
\* notification channel.
add_protocol_handler(b, rpc, ds) ==
    LET network_notifs_tx == b.next_channel
        connection_notifs_tx == b.next_channel + 1
        listed == Range(rpc) \cup Range(ds)
    IN  [b EXCEPT
            !.direct_send_protocols = @ \o ds,
            !.rpc_protocols = @ \o rpc,
            !.upstream_handlers =
                [p \in DOMAIN @ \cup listed |->
                    IF p \in listed THEN network_notifs_tx ELSE @[p]],
            !.connection_event_handlers = Append(@, connection_notifs_tx),
            !.next_channel = @ + 2]
\* The conn_notifs_channel::Receiver add_protocol_handler returns.
handler_connection_notifs_rx(b) == b.next_channel + 1

\* The builder after add_connection_event_listener(); it returns the
\* receiver of channel next_channel.
add_connection_event_listener(b) ==
    [b EXCEPT
        !.connection_event_handlers = Append(@, b.next_channel),
        !.next_channel = @ + 1]
listener_rx(b) == b.next_channel

AddProtocolHandler(rpc, ds) ==
    /\ Callable
    /\ nb' = add_protocol_handler(nb, rpc, ds)
    /\ regs' = Append(regs, handler_connection_notifs_rx(nb))
    /\ delivered' = Subscribed({handler_connection_notifs_rx(nb)})
    /\ ncalls' = ncalls + 1
    /\ hist' = [hist EXCEPT !.protocols = @ \cup Range(rpc) \cup Range(ds)]
    /\ UNCHANGED <<registry, tasks, pm, phase, panic, conns, nsteps>>
    /\ UNCHANGED cmvars

AddConnectionEventListener ==
    /\ Callable
    /\ nb' = add_connection_event_listener(nb)
    /\ regs' = Append(regs, listener_rx(nb))
    /\ delivered' = Subscribed({listener_rx(nb)})
    /\ ncalls' = ncalls + 1
    /\ UNCHANGED <<hist, registry, tasks, pm, phase, panic, conns, nsteps>>
    /\ UNCHANGED cmvars

\* ------------------------------------------------------------- components
\* ------------------------------------------------------------ u64 values
\* A u64 is four 16-bit limbs, least significant first.
LimbBase == 256 * 256
U64(n) == << n % LimbBase, (n \div LimbBase) % LimbBase, 0, 0 >>
U64_MAX == << LimbBase - 1, LimbBase - 1, LimbBase - 1, LimbBase - 1 >>
\* x * c for a small c, limb by limb: the low 64 bits and the carry out.
U64MulParts(x, c) ==
    LET p1 == x[1] * c
        p2 == x[2] * c + (p1 \div LimbBase)
        p3 == x[3] * c + (p2 \div LimbBase)
        p4 == x[4] * c + (p3 \div LimbBase)
    IN  [ low |-> << p1 % LimbBase, p2 % LimbBase, p3 % LimbBase, p4 % LimbBase >>,
          carry |-> p4 \div LimbBase ]
\* u64::checked_mul
checked_mul(x, c) ==
    LET r == U64MulParts(x, c)
    IN  IF r.carry = 0 THEN Some(r.low) ELSE None
\* x <= y on u64 values
U64Leq(x, y) ==
    \/ x[4] < y[4]
    \/ x[4] = y[4] /\ x[3] < y[3]
    \/ x[4] = y[4] /\ x[3] = y[3] /\ x[2] < y[2]
    \/ x[4] = y[4] /\ x[3] = y[3] /\ x[2] = y[2] /\ x[1] <= y[1]
U64Min(x, y) == IF U64Leq(x, y) THEN x ELSE y

\* tokio_retry's ExponentialBackoff::from_millis(base).factor(factor)
ExponentialBackoff(base, factor) ==
    [current |-> U64(base), base |-> base, factor |-> factor]

\* tokio_retry's Iterator::next for ExponentialBackoff (no max_delay is set
\* on the strategy): the duration in ms, and the iterator afterwards.  Both
\* products saturate at u64::MAX.
exponential_backoff_next(b) ==
    LET duration == checked_mul(b.current, b.factor)
        next == checked_mul(b.current, b.base)
    IN  [ duration |-> IF duration.some THEN duration.val ELSE U64_MAX,
          backoff |-> [b EXCEPT !.current =
                          IF next.some THEN next.val ELSE U64_MAX] ]

\* ConnectivityManager::new given the default interval, not the builder's.
connectivity_manager_args_default_interval(b, reqs, rx) ==
    [ kind |-> "ConnectivityManager",
      peer_id |-> b.peer_id,
      trusted_peers |-> b.trusted_peers,
      seed_peers |-> b.seed_peers,
      connectivity_check_interval_ms |-> CONNECTIVITY_CHECK_INTERNAL_MS,
      connection_notifs_rx |-> rx,
      requests_rx |-> reqs,
      connection_reqs_tx |-> b.connection_reqs,
      backoff_strategy |-> ExponentialBackoff(2, 1000),
      max_connection_delay_ms |-> b.max_connection_delay_ms ]

\* ConnectivityManager::new given the maximum delay in the wrong unit.
connectivity_manager_args_delay_unit(b, reqs, rx) ==
    [ kind |-> "ConnectivityManager",
      peer_id |-> b.peer_id,
      trusted_peers |-> b.trusted_peers,
      seed_peers |-> b.seed_peers,
      connectivity_check_interval_ms |-> b.connectivity_check_interval_ms,
      connection_notifs_rx |-> rx,
      requests_rx |-> reqs,
      connection_reqs_tx |-> b.connection_reqs,
      backoff_strategy |-> ExponentialBackoff(2, 1000),
      max_connection_delay_ms |-> b.max_connection_delay_ms * 1000 ]

\* The arguments add_connectivity_manager gives ConnectivityManager::new;
\* reqs is the channel just created for ConnectivityRequests and rx the
\* receiver add_connection_event_listener returned.
connectivity_manager_args(b, reqs, rx) ==
    [ kind |-> "ConnectivityManager",
      peer_id |-> b.peer_id,
      trusted_peers |-> b.trusted_peers,
      seed_peers |-> b.seed_peers,
      connectivity_check_interval_ms |-> b.connectivity_check_interval_ms,
      connection_notifs_rx |-> rx,
      requests_rx |-> reqs,
      connection_reqs_tx |-> b.connection_reqs,
      backoff_strategy |-> ExponentialBackoff(2, 1000),
      max_connection_delay_ms |-> b.max_connection_delay_ms ]

\* NetworkBuilder::add_connectivity_manager on builder b: the builder it
\* leaves, the receiver it subscribed and the manager it spawns.
connectivity_manager_added(b) ==
    LET reqs == b.next_channel
        b1 == [b EXCEPT !.conn_mgr_reqs_tx = Some(reqs),
                        !.next_channel = @ + 1]
        rx == listener_rx(b1)
    IN  [ nb |-> add_connection_event_listener(b1), rx |-> rx,
          spawned |-> connectivity_manager_args(b1, reqs, rx) ]

add_connectivity_manager ==
    /\ Callable
    /\ LET r == connectivity_manager_added(nb)
       IN  /\ nb' = r.nb
           /\ tasks' = Append(tasks, r.spawned)
           /\ regs' = Append(regs, r.rx)
           /\ delivered' = Subscribed({r.rx})
    /\ ncalls' = ncalls + 1
    /\ UNCHANGED <<hist, registry, pm, phase, panic, conns, nsteps>>
    /\ UNCHANGED cmvars

\* discovery::add_to_network: registers the discovery protocol's handler.
discovery_add_to_network(b) ==
    add_protocol_handler(b, <<>>, <<"DiscoveryDirectSend">>)

\* health_checker::add_to_network: registers the ping protocol's handler.
health_checker_add_to_network(b) ==
    add_protocol_handler(b, <<"HealthCheckerRpc">>, <<>>)

\* The arguments add_gossip_discovery gives Discovery::new.
discovery_args(b, tx) ==
    [ kind |-> "Discovery",
      peer_id |-> b.peer_id,
      addrs |-> << append_prod_protos(
                     IF b.advertised_address.some
                         THEN b.advertised_address.val
                         ELSE b.listen_address,
                     public_key(b.authentication_mode),
                     HANDSHAKE_VERSION) >>,
      discovery_interval_ms |-> b.discovery_interval_ms,
      conn_mgr_reqs_tx |-> tx ]

\* add_gossip_discovery with the ConnectivityManager looked up only after
\* discovery::add_to_network has registered the protocol.
gossip_discovery_registers_first(b) ==
    LET b1 == discovery_add_to_network(b)
        rx == handler_connection_notifs_rx(b)
    IN  IF ~conn_mgr_reqs_tx(b).some
        THEN [ nb |-> b1, panic |-> Panic("ConnectivityManager not enabled", 339),
               rxs |-> <<rx>>, spawned |-> <<>> ]
        ELSE IF b1.authentication_mode = AuthNone
        THEN [ nb |-> b1, panic |-> Panic("Authentication Mode not set", 361),
               rxs |-> <<rx>>, spawned |-> <<>> ]
        ELSE [ nb |-> b1, panic |-> NoPanic, rxs |-> <<rx>>,
               spawned |-> << discovery_args(b1, conn_mgr_reqs_tx(b).val) >> ]

\* NetworkBuilder::add_gossip_discovery on builder b: the builder it leaves,
\* the panic it ends in (if any) and the Discovery task it spawns.  The
\* first expect() comes before anything is registered, the second after
\* discovery::add_to_network.
gossip_discovery(b) ==
    IF ~conn_mgr_reqs_tx(b).some
    THEN [ nb |-> b, panic |-> Panic("ConnectivityManager not enabled", 339),
           rxs |-> <<>>, spawned |-> <<>> ]
    ELSE LET b1 == discovery_add_to_network(b)
             rx == handler_connection_notifs_rx(b)
         IN  IF b1.authentication_mode = AuthNone
             THEN [ nb |-> b1,
                    panic |-> Panic("Authentication Mode not set", 361),
                    rxs |-> <<rx>>, spawned |-> <<>> ]
             ELSE [ nb |-> b1, panic |-> NoPanic, rxs |-> <<rx>>,
                    spawned |->
                        << discovery_args(b1, conn_mgr_reqs_tx(b).val) >> ]

add_gossip_discovery ==
    /\ Callable
    /\ ncalls' = ncalls + 1
    /\ LET r == gossip_discovery(nb)
       IN  /\ nb' = r.nb
           /\ regs' = regs \o r.rxs
           /\ delivered' = Subscribed(Range(r.rxs))
           /\ tasks' = tasks \o r.spawned
           /\ phase' = IF r.panic = NoPanic THEN phase ELSE "panicked"
           /\ panic' = r.panic
           /\ hist' = [hist EXCEPT
                        !.gossip_calls = @ + 1,
                        !.protocols = IF r.rxs = <<>> THEN @
                                      ELSE @ \cup {"DiscoveryDirectSend"}]
    /\ UNCHANGED <<registry, pm, conns, nsteps>>
    /\ UNCHANGED cmvars

\* The arguments add_connection_monitoring gives HealthChecker::new.
health_checker_args(b) ==
    [ kind |-> "HealthChecker",
      ping_interval_ms |-> b.ping_interval_ms,
      ping_timeout_ms |-> b.ping_timeout_ms,
      ping_failures_tolerated |-> b.ping_failures_tolerated ]

\* NetworkBuilder::add_connection_monitoring
add_connection_monitoring ==
    /\ Callable
    /\ LET b1 == health_checker_add_to_network(nb)
           rx == handler_connection_notifs_rx(nb)
       IN  /\ nb' = b1
           /\ regs' = Append(regs, rx)
           /\ delivered' = Subscribed({rx})
           /\ tasks' = Append(tasks, health_checker_args(b1))
    /\ ncalls' = ncalls + 1
    /\ hist' = [hist EXCEPT !.protocols = @ \cup {"HealthCheckerRpc"}]
    /\ UNCHANGED <<registry, pm, phase, panic, conns, nsteps>>
    /\ UNCHANGED cmvars

\* ------------------------------------------------------------------ build
\* The match with the Mutual arm handing the transport a copy of the map.
resolve_identity_copies_registry(b, am) ==
    IF am.mode = "ServerOnly" /\ b.peer_id = PeerIdDefault
    THEN [ key |-> am.key, maybe_trusted_peers |-> None,
           peer_id |-> from_identity_public_key(x25519_public_key(am.key)) ]
    ELSE IF am.mode = "ServerOnly"
    THEN [ key |-> am.key, maybe_trusted_peers |-> None,
           peer_id |-> b.peer_id ]
    ELSE [ key |-> am.key, maybe_trusted_peers |-> Some(Snapshot(registry)),
           peer_id |-> b.peer_id ]

\* The match without its first arm's guard on PeerId::default().
resolve_identity_always_derives(b, am) ==
    IF am.mode = "ServerOnly"
    THEN [ key |-> am.key, maybe_trusted_peers |-> None,
           peer_id |-> from_identity_public_key(x25519_public_key(am.key)) ]
    ELSE [ key |-> am.key, maybe_trusted_peers |-> Some(b.trusted_peers),
           peer_id |-> b.peer_id ]

\* build()'s match on the authentication mode: the key, the registry handle
\* the transport is given (or none) and the node's PeerId.
resolve_identity(b, am) ==
    IF am.mode = "ServerOnly" /\ b.peer_id = PeerIdDefault
    THEN [ key |-> am.key, maybe_trusted_peers |-> None,
           peer_id |-> from_identity_public_key(x25519_public_key(am.key)) ]
    ELSE IF am.mode = "ServerOnly"
    THEN [ key |-> am.key, maybe_trusted_peers |-> None,
           peer_id |-> b.peer_id ]
    ELSE [ key |-> am.key, maybe_trusted_peers |-> Some(b.trusted_peers),
           peer_id |-> b.peer_id ]

\* The match on a prefix of the address, trailing segments ignored.
select_transport_prefix(addr) ==
    IF Len(addr) >= 2 /\ addr[1].proto \in {"Ip4", "Ip6"} /\ addr[2].proto = "Tcp"
    THEN "LIBRA_TCP_TRANSPORT"
    ELSE IF Len(addr) >= 1 /\ addr[1].proto = "Memory"
    THEN "MemoryTransport"
    ELSE "unsupported"

\* build()'s match on listen_address.as_slice().
select_transport(addr) ==
    IF Len(addr) = 2 /\ addr[1].proto \in {"Ip4", "Ip6"} /\ addr[2].proto = "Tcp"
    THEN "LIBRA_TCP_TRANSPORT"
    ELSE IF Len(addr) = 1 /\ addr[1].proto = "Memory"
    THEN "MemoryTransport"
    ELSE "unsupported"

\* LibraNetTransport::new as build() calls it.
LibraNetTransport(base, id, protos) ==
    [ base |-> base,
      peer_id |-> id.peer_id,
      key |-> id.key,
      trusted_peers |-> id.maybe_trusted_peers,
      handshake_version |-> HANDSHAKE_VERSION,
      supported_protocols |-> protos ]

\* NetworkBuilder::build_with_transport: PeerManager::new and its spawn.
build_with_transport(b, transport) ==
    [ started |-> TRUE,
      transport |-> transport,
      peer_id |-> b.peer_id,
      listen_address |-> b.listen_address,
      upstream_handlers |-> b.upstream_handlers,
      connection_event_handlers |-> b.connection_event_handlers,
      max_concurrent_network_reqs |-> b.max_concurrent_network_reqs,
      max_concurrent_network_notifs |-> b.max_concurrent_network_notifs,
      channel_size |-> b.channel_size ]

\* unwrap_or(a default mode) in place of expect().
expect_authentication_mode_or_default(b) ==
    IF b.authentication_mode = AuthNone
    THEN Some([mode |-> "ServerOnly", key |-> 1])
    ELSE Some(b.authentication_mode)

\* build()'s authentication_mode.take().expect(..): the mode, or none and
\* the panic.
expect_authentication_mode(b) ==
    IF b.authentication_mode = AuthNone THEN None
    ELSE Some(b.authentication_mode)

\* NetworkBuilder::build on builder b: the builder it leaves, the panic it
\* ends in (if any) and the PeerManager it starts.
build_outcome(b) ==
    LET protos == supported_protocols(b)
        am == expect_authentication_mode(b)
    IN  IF ~am.some
        THEN [ nb |-> b, panic |-> Panic("Authentication Mode not set", 415),
               pm |-> PmNotStarted ]
        ELSE LET b1 == [b EXCEPT !.authentication_mode = AuthNone]
                 id == resolve_identity(b1, am.val)
                 base == select_transport(b1.listen_address)
             IN  IF base = "unsupported"
                 THEN [ nb |-> b1,
                        panic |-> [ msg |-> "Unsupported listen_address",
                                    addr |-> Some(b1.listen_address),
                                    line |-> 453 ],
                        pm |-> PmNotStarted ]
                 ELSE [ nb |-> b1, panic |-> NoPanic,
                        pm |-> build_with_transport(
                                   b1, LibraNetTransport(base, id, protos)) ]

build ==
    /\ Callable
    /\ ncalls' = ncalls + 1
    /\ LET r == build_outcome(nb)
       IN  /\ nb' = r.nb
           /\ pm' = r.pm
           /\ panic' = r.panic
           /\ phase' = IF r.pm.started THEN "running" ELSE "panicked"
           /\ tasks' = IF r.pm.started
                       THEN Append(tasks, [kind |-> "PeerManager"])
                       ELSE tasks
    /\ hist' = [hist EXCEPT !.built = TRUE]
    /\ UNCHANGED <<registry, regs, conns, delivered, nsteps>>
    /\ UNCHANGED cmvars

\* ---------------------------------------------------------------- runtime
ConnectivityManagers ==
    { i \in DOMAIN tasks : tasks[i].kind = "ConnectivityManager" }

\* ConnectivityRequest::UpdateEligibleNodes handled by a running
\* ConnectivityManager: the map behind its handle is replaced.  (While the
\* builder is still being configured the same write is trusted_peers(m).)
UpdateEligibleNodes(m) ==
    /\ phase = "running"
    /\ nsteps < MaxRuntimeSteps
    /\ \E i \in ConnectivityManagers : tasks[i].trusted_peers.ref
    /\ registry' = m
    /\ nsteps' = nsteps + 1
    /\ UNCHANGED <<nb, tasks, pm, phase, panic, ncalls, hist, regs, conns, delivered>>
    /\ UNCHANGED cmvars

\* The transport's check of the remote's static key at the end of the Noise
\* handshake.  Inbound: with a registry, the key must be in it; without,
\* any key is accepted.  Outbound: the dialer pins the key it expects
\* (taken from the address), and with a registry the key must be in it too.
handshake_accepts(t, dir, remote_key, expected_key) ==
    /\ dir = "outbound" => remote_key = expected_key
    /\ t.trusted_peers.some =>
           remote_key \in Range(Deref(t.trusted_peers.val))

\* PeerManager: every connection event goes to every subscriber it was
\* started with.
fan_out(handlers) ==
    [c \in DOMAIN delivered |->
        IF c \in Range(handlers) THEN delivered[c] + 1 ELSE delivered[c]]

\* One handshake on the running transport.  A successful one becomes a
\* connection, and the PeerManager tells its subscribers.
Handshake(dir, remote_key, expected_key) ==
    /\ phase = "running"
    /\ nsteps < MaxRuntimeSteps
    /\ nsteps' = nsteps + 1
    /\ LET ok == handshake_accepts(pm.transport, dir, remote_key, expected_key)
       IN  /\ conns' = Append(conns,
                   [ dir |-> dir, remote_key |-> remote_key,
                     connected |-> ok,
                     in_registry |-> remote_key \in Range(registry) ])
           /\ delivered' = IF ok THEN fan_out(pm.connection_event_handlers)
                           ELSE delivered
    /\ UNCHANGED <<nb, registry, tasks, pm, phase, panic, ncalls, hist, regs>>
    /\ UNCHANGED cmvars

Next ==
    \/ \E am \in AuthenticationModes : authentication_mode(am)
    \/ \E a \in AdvertisedAddresses : advertised_address(a)
    \/ \E m \in TrustedPeerMaps : trusted_peers(m)
    \/ \E m \in SeedPeerMaps : seed_peers(m)
    \/ \E v \in IntervalInputs : discovery_interval_ms(v)
    \/ \E v \in IntervalInputs : connectivity_check_interval_ms(v)
    \/ \E h \in HandlerInputs : AddProtocolHandler(h[1], h[2])
    \/ AddConnectionEventListener
    \/ add_connectivity_manager
    \/ add_gossip_discovery
    \/ add_connection_monitoring
    \/ build
    \/ \E m \in TrustedPeerMaps : UpdateEligibleNodes(m)
    \/ \E k \in RemoteKeys : Handshake("inbound", k, k)
    \/ \E k \in RemoteKeys, e \in RemoteKeys : Handshake("outbound", k, e)

Spec == Init /\ [][Next]_vars

\* ------------------------------------------------------- registry writes
\* The builder calls that write and share the registry, with the history of
\* the writes: the map of the last trusted_peers call, the peers an earlier
\* map held and the last one does not, and how many ConnectivityManagers
\* held the registry when the last call was made.
RegistryHistory == [written |-> EmptyMap, evicted |-> {}, holders |-> 0]

TrustedPeersCall(m) ==
    /\ Callable
    /\ registry' = trusted_peers_write(registry, m)
    /\ ncalls' = ncalls + 1
    /\ ghost' = [ written |-> m,
                  evicted |-> (ghost.evicted \cup DOMAIN registry) \ DOMAIN m,
                  holders |-> Cardinality(ConnectivityManagers) ]
    /\ UNCHANGED <<hist, nb, tasks, pm, phase, panic, regs, conns, delivered, nsteps>>
    /\ UNCHANGED <<cm, cmds, notifs, gw, env, rwlock>>

InitRegistry ==
    /\ \E id \in CallerPeerIds, la \in ListenAddresses :
           nb = NetworkBuilderNew(id, la)
    /\ registry = EmptyMap
    /\ tasks = <<>>
    /\ pm = PmNotStarted
    /\ phase = "building"
    /\ panic = NoPanic
    /\ ncalls = 0
    /\ hist = [ auth |-> AuthNone,
                connectivity_check_interval_ms |-> CONNECTIVITY_CHECK_INTERNAL_MS,
                discovery_interval_ms |-> DISCOVERY_INTERVAL_MS,
                seed_peers |-> EmptyMap, advertised_address |-> None,
                protocols |-> {}, gossip_calls |-> 0, built |-> FALSE ]
    /\ regs = <<>>
    /\ conns = <<>>
    /\ delivered = [c \in {} |-> 0]
    /\ nsteps = 0
    /\ cm = [started |-> FALSE]
    /\ cmds = EmptyMap
    /\ notifs = <<>>
    /\ gw = EmptyMap
    /\ ghost = RegistryHistory
    /\ env = [max_dials |-> 0, max_updates |-> 0]
    /\ rwlock = RwLockNew

NextRegistry ==
    \/ \E m \in TrustedPeerMaps : TrustedPeersCall(m)
    \/ \E am \in AuthenticationModes : authentication_mode(am)
    \/ add_connectivity_manager
    \/ build
    \/ \E k \in RemoteKeys : Handshake("inbound", k, k)

SpecRegistry == InitRegistry /\ [][NextRegistry]_vars

\* ------------------------------------------------- connectivity manager
\* The ConnectivityManager's control loop and the PeerManager's side of its
\* two channels, after the design document (sections 3, 4.2 and 4.3).
Peers == RemotePeers

\* ConnectivityManager::new: the arguments it keeps and no Connection Record.
ConnectivityManagerNew(args) ==
    [started |-> TRUE, args |-> args, records |-> EmptyMap]

\* Desired Peer Set: the registry's keys and the Seed Peers' keys.
Desired(c) ==
    DOMAIN Deref(c.args.trusted_peers) \cup DOMAIN c.args.seed_peers

\* A fresh Connection Record: NotConnected, backoff at the base delay, no
\* retry time pending.
FreshRecord(c) ==
    [ state |-> "NotConnected", backoff |-> c.args.backoff_strategy,
      delay |-> U64(0), waiting |-> FALSE ]

\* The delay of the next attempt, min(max_connection_delay_ms, next()), and
\* the record once the backoff cursor has advanced and the dial is out.
dialed(c, rec) ==
    LET n == exponential_backoff_next(rec.backoff)
    IN  [ state |-> "Dialing", backoff |-> n.backoff,
          delay |-> U64Min(U64(c.args.max_connection_delay_ms), n.duration),
          waiting |-> TRUE ]

\* The records of a reconciliation pass: a desired peer without a record
\* gets one.
with_lazy_records(c) ==
    [ p \in DOMAIN c.records \cup Desired(c) |->
        IF p \in DOMAIN c.records THEN c.records[p] ELSE FreshRecord(c) ]

\* A pass that dials every desired peer it is not connected to.
dial_candidates_not_connected(c, recs) ==
    { p \in Desired(c) : recs[p].state # "Connected" /\ ~recs[p].waiting }

\* The peers a pass dials: desired, NotConnected, backoff cursor elapsed.
dial_candidates(c, recs) ==
    { p \in Desired(c) : recs[p].state = "NotConnected" /\ ~recs[p].waiting }

\* A pass that tests the Desired Peer Set the wrong way round.
disconnect_candidates_desired(c, recs) ==
    { p \in DOMAIN recs : recs[p].state = "Connected" /\ p \in Desired(c) }

\* The peers a pass disconnects: Connected and not desired.
disconnect_candidates(c, recs) ==
    { p \in DOMAIN recs : recs[p].state = "Connected" /\ p \notin Desired(c) }

\* The queue of one peer's requests holds as many as the channel allows.
full(c, q) == Len(q) >= c.args.connection_reqs_tx.size

\* A pass that takes every command as placed, whether the channel had room
\* for it or not.
placed_unchecked(c, qs, cand) == cand

\* The candidates whose command a pass can place: a command for a peer
\* whose queue is full is skipped this pass.
placed(c, qs, cand) == { p \in cand : ~full(c, qs[p]) }

\* libra_channel push, QueueStyle::FIFO: a message for a full queue is
\* dropped, the sender goes on.
push(c, q, m) == IF full(c, q) THEN q ELSE Append(q, m)

\* The records a reconciliation pass leaves.
reconciled(c, recs, dial, disc) ==
    [ p \in DOMAIN recs |->
        IF p \in dial THEN dialed(c, recs[p])
        ELSE IF p \in disc THEN [recs[p] EXCEPT !.state = "NotConnected"]
        ELSE recs[p] ]

\* The record of a peer an eligibility update makes newly eligible: backoff
\* back at the base delay; the state stays as it is (only ticks and
\* notifications move it).
newly_eligible_record(c, p) ==
    IF p \in DOMAIN c.records /\ c.records[p].state # "NotConnected"
    THEN [c.records[p] EXCEPT !.backoff = c.args.backoff_strategy,
                              !.delay = U64(0), !.waiting = FALSE]
    ELSE FreshRecord(c)

\* A connect notification that keeps the backoff cursor where it was.
connected_record_keeps_backoff(c, p) ==
    IF p \in DOMAIN c.records
    THEN [c.records[p] EXCEPT !.state = "Connected"]
    ELSE [FreshRecord(c) EXCEPT !.state = "Connected"]

\* The record of a desired peer after its connect notification: Connected,
\* backoff cursor back at the base delay.
connected_record(c, p) == [FreshRecord(c) EXCEPT !.state = "Connected"]

DialPeer(p) == [kind |-> "DialPeer", peer |-> p]
DisconnectPeer(p) == [kind |-> "DisconnectPeer", peer |-> p]
NewPeer(p) == [kind |-> "NewPeer", peer |-> p]
LostPeer(p) == [kind |-> "LostPeer", peer |-> p]

GhostPeer ==
    [ dials |-> 0, outstanding |-> FALSE, passed |-> FALSE,
      prev |-> U64(0), prev_rec |-> U64(0),
      evicted |-> FALSE, ticked |-> FALSE, disc |-> FALSE, gone |-> FALSE,
      redialed |-> FALSE, reset |-> FALSE, grown |-> FALSE,
      deferred |-> "none" ]

RECURSIVE SumDials(_)
SumDials(S) ==
    IF S = {} THEN 0
    ELSE LET p == CHOOSE q \in S : TRUE
         IN  ghost.peer[p].dials + SumDials(S \ {p})
\* The dial commands issued so far, over all peers.
DialsIssued == SumDials(Peers)

\* The periodic tick: one whole reconciliation pass.
Tick ==
    /\ cm.started
    /\ LET recs == with_lazy_records(cm)
           dial == placed(cm, cmds, dial_candidates(cm, recs))
           disc == placed(cm, cmds, disconnect_candidates(cm, recs))
           next == reconciled(cm, recs, dial, disc)
           skip == ( dial_candidates(cm, recs)
                     \cup disconnect_candidates(cm, recs) ) \ (dial \cup disc)
       IN  /\ DialsIssued + Cardinality(dial) <= env.max_dials
           /\ cm' = [cm EXCEPT !.records = next]
           /\ cmds' = [ p \in Peers |->
                 IF p \in dial THEN push(cm, cmds[p], DialPeer(p))
                 ELSE IF p \in disc THEN push(cm, cmds[p], DisconnectPeer(p))
                 ELSE cmds[p] ]
           /\ ghost' = [ghost EXCEPT !.peer = [ p \in Peers |->
                 LET g == ghost.peer[p]
                 IN  [ g EXCEPT
                       !.dials = IF p \in dial THEN @ + 1 ELSE @,
                       !.outstanding = @ \/ p \in dial,
                       !.passed = @ \/ ( /\ g.outstanding
                                         /\ p \in Desired(cm)
                                         /\ recs[p].state = "Dialing" ),
                       !.prev = IF p \in dial THEN next[p].delay ELSE @,
                       !.prev_rec = IF p \in dial THEN next[p].delay ELSE @,
                       !.ticked = @ \/ g.evicted,
                       !.disc = @ \/ (g.evicted /\ p \in disc),
                       !.redialed = @ \/ (g.evicted /\ p \in dial),
                       !.reset = @ /\ p \notin dial,
                       !.deferred =
                           IF p \in skip
                           THEN IF recs[p].state = "Connected"
                                THEN "disc" ELSE "dial"
                           ELSE IF p \in dial \cup disc
                           THEN IF g.deferred = "none" THEN "none"
                                ELSE "placed"
                           ELSE IF g.deferred = "placed" THEN "placed"
                           ELSE "none" ] ]]
    /\ UNCHANGED <<registry, notifs, gw, env>>
    /\ UNCHANGED buildervars
    /\ UNCHANGED rwlock

\* The next connection notification reaches the ConnectivityManager.
HandleNotification ==
    /\ cm.started
    /\ notifs # <<>>
    /\ LET n == Head(notifs)
           p == n.peer
           g == ghost.peer[p]
           desired == p \in Desired(cm)
       IN  /\ notifs' = Tail(notifs)
           /\ IF n.kind = "NewPeer"
              THEN /\ cm' = IF desired \/ full(cm, cmds[p])
                            THEN [cm EXCEPT !.records =
                                   [ q \in DOMAIN cm.records \cup {p} |->
                                       IF q = p
                                       THEN connected_record(cm, p)
                                       ELSE cm.records[q] ]]
                            ELSE cm
                   /\ cmds' = IF desired THEN cmds
                              ELSE [cmds EXCEPT
                                      ![p] = push(cm, @, DisconnectPeer(p))]
                   /\ ghost' = [ghost EXCEPT !.peer[p] =
                         [ g EXCEPT !.outstanding = FALSE, !.passed = FALSE,
                                    !.prev = U64(0), !.prev_rec = U64(0),
                                    !.disc = @ \/ (g.evicted /\ ~desired),
                                    !.reset = @ \/ desired,
                                    !.grown = IF desired THEN g.prev = U64(4000)
                                              ELSE @,
                                    !.deferred =
                                        IF ~desired /\ full(cm, cmds[p])
                                        THEN "disc" ELSE "none" ]]
              ELSE /\ cm' = IF desired
                            THEN [cm EXCEPT !.records =
                                   [ q \in DOMAIN cm.records |->
                                       IF q = p
                                       THEN [cm.records[q] EXCEPT
                                                !.state = "NotConnected"]
                                       ELSE cm.records[q] ]]
                            ELSE [cm EXCEPT !.records =
                                   [ q \in DOMAIN cm.records \ {p} |->
                                       cm.records[q] ]]
                   /\ cmds' = cmds
                   /\ ghost' = [ghost EXCEPT !.peer[p] =
                         [ g EXCEPT !.outstanding = FALSE, !.passed = FALSE,
                                    !.prev_rec = IF desired THEN @ ELSE U64(0),
                                    !.gone = @ \/ (g.evicted /\ ~desired) ]]
    /\ UNCHANGED <<registry, gw, env>>
    /\ UNCHANGED buildervars
    /\ UNCHANGED rwlock

\* The administrative request UpdateEligibleNodes(m) reaches the
\* ConnectivityManager: the registry is replaced as a whole, and the peers
\* it makes newly eligible start from the base delay.
AdminUpdateEligibleNodes(m) ==
    /\ cm.started
    /\ cm.args.trusted_peers.ref
    /\ ghost.updates < env.max_updates
    /\ LET newly == DOMAIN m \ DOMAIN registry
           removed == DOMAIN registry \ DOMAIN m
       IN  /\ registry' = m
           /\ cm' = [cm EXCEPT !.records =
                  [ p \in DOMAIN cm.records \cup newly |->
                      IF p \in newly THEN newly_eligible_record(cm, p)
                      ELSE cm.records[p] ]]
           /\ ghost' = [ updates |-> ghost.updates + 1,
                         peer |-> [ p \in Peers |->
                 LET g == ghost.peer[p]
                     now == /\ p \in removed
                            /\ p \in DOMAIN cm.records
                            /\ cm.records[p].state = "Connected"
                 IN  IF p \in DOMAIN m
                     THEN [ g EXCEPT
                            !.prev_rec = IF p \in newly THEN U64(0) ELSE @,
                            !.evicted = FALSE, !.ticked = FALSE,
                            !.disc = FALSE, !.gone = FALSE ]
                     ELSE IF now
                     THEN [ g EXCEPT !.evicted = TRUE, !.ticked = FALSE,
                                     !.disc = FALSE, !.gone = FALSE ]
                     ELSE g ] ]
    /\ UNCHANGED <<cmds, notifs, gw, env>>
    /\ UNCHANGED buildervars
    /\ UNCHANGED rwlock

\* Time passes: the retry time of peer p's record is reached.
TimePasses(p) ==
    /\ cm.started
    /\ p \in DOMAIN cm.records
    /\ cm.records[p].state = "NotConnected"
    /\ cm.records[p].waiting
    /\ cm' = [cm EXCEPT !.records[p].waiting = FALSE]
    /\ UNCHANGED <<registry, cmds, notifs, gw, ghost, env>>
    /\ UNCHANGED buildervars
    /\ UNCHANGED rwlock

\* The PeerManager takes the next request for peer p.  A dial succeeds or
\* fails (ok); a failed dial is announced like a lost connection.
GatewayHandleRequest(p, ok) ==
    /\ cm.started
    /\ cmds[p] # <<>>
    /\ cmds' = [cmds EXCEPT ![p] = Tail(@)]
    /\ IF Head(cmds[p]).kind = "DialPeer"
       THEN IF gw[p] = "connected"
            THEN UNCHANGED <<gw, notifs>>
            ELSE IF ok
            THEN /\ gw' = [gw EXCEPT ![p] = "connected"]
                 /\ notifs' = Append(notifs, NewPeer(p))
            ELSE /\ gw' = gw
                 /\ notifs' = Append(notifs, LostPeer(p))
       ELSE IF gw[p] = "connected"
            THEN /\ gw' = [gw EXCEPT ![p] = "idle"]
                 /\ notifs' = Append(notifs, LostPeer(p))
            ELSE UNCHANGED <<gw, notifs>>
    /\ UNCHANGED <<registry, cm, ghost, env>>
    /\ UNCHANGED buildervars
    /\ UNCHANGED rwlock

\* The connection to peer p is lost (closed by the remote, or broken).
GatewayLost(p) ==
    /\ cm.started
    /\ gw[p] = "connected"
    /\ gw' = [gw EXCEPT ![p] = "idle"]
    /\ notifs' = Append(notifs, LostPeer(p))
    /\ UNCHANGED <<registry, cm, cmds, ghost, env>>
    /\ UNCHANGED buildervars
    /\ UNCHANGED rwlock

\* A validator network that is up: new(), seed_peers(seeds),
\* trusted_peers(m0), authentication_mode(Mutual), add_connectivity_manager()
\* and build() have run.
RunningNetwork(seeds) ==
    LET b0 == [ NetworkBuilderNew(7, Addr2("Ip4", "Tcp")) EXCEPT
                  !.seed_peers = seeds,
                  !.authentication_mode = [mode |-> "Mutual", key |-> 1] ]
        added == connectivity_manager_added(b0)
        built == build_outcome(added.nb)
    IN  [ nb |-> built.nb, pm |-> built.pm, rx |-> added.rx,
          spawned |-> added.spawned ]

InitRunning(seeds, m0, limits) ==
    LET r == RunningNetwork(seeds)
    IN  /\ nb = r.nb
        /\ registry = m0
        /\ tasks = <<r.spawned, [kind |-> "PeerManager"]>>
        /\ pm = r.pm
        /\ phase = "running"
        /\ panic = NoPanic
        /\ ncalls = 0
        /\ hist = [ auth |-> [mode |-> "Mutual", key |-> 1],
                    connectivity_check_interval_ms |->
                        CONNECTIVITY_CHECK_INTERNAL_MS,
                    discovery_interval_ms |-> DISCOVERY_INTERVAL_MS,
                    seed_peers |-> seeds, advertised_address |-> None,
                    protocols |-> {}, gossip_calls |-> 0, built |-> TRUE ]
        /\ regs = <<r.rx>>
        /\ conns = <<>>
        /\ delivered = [c \in {r.rx} |-> 0]
        /\ nsteps = 0
        /\ cm = ConnectivityManagerNew(
                   [r.spawned EXCEPT !.connection_reqs_tx.size = limits.capacity])
        /\ cmds = [p \in Peers |-> <<>>]
        /\ notifs = <<>>
        /\ gw = [p \in Peers |-> "idle"]
        /\ ghost = [updates |-> 0, peer |-> [p \in Peers |-> GhostPeer]]
        /\ env = [ max_dials |-> limits.max_dials,
                   max_updates |-> limits.max_updates ]
        /\ rwlock = RwLockNew

\* Two runs: membership changing under a few dials, and one peer that
\* keeps failing under a fixed membership.
InitCM ==
    \/ \E seeds \in SeedPeerMaps, m0 \in TrustedPeerMaps :
           InitRunning(seeds, m0,
               [max_dials |-> MaxDials, max_updates |-> MaxUpdates,
                capacity |-> NETWORK_CHANNEL_SIZE])
    \/ InitRunning(EmptyMap, [p \in {1} |-> RemoteKeyOf(p)],
           [max_dials |-> MaxFailures, max_updates |-> 0,
            capacity |-> NETWORK_CHANNEL_SIZE])

NextCM ==
    \/ Tick
    \/ HandleNotification
    \/ \E m \in TrustedPeerMaps : AdminUpdateEligibleNodes(m)
    \/ \E p \in Peers : TimePasses(p)
    \/ \E p \in Peers, ok \in BOOLEAN : GatewayHandleRequest(p, ok)
    \/ \E p \in Peers : GatewayLost(p)

SpecCM == InitCM /\ [][NextCM]_vars

\* The same network with a command channel scaled down to MaxQueued
\* requests per peer, so that it fills up.
\* Peer 1 joins and leaves the registry.
MembershipOfOne == { m \in TrustedPeerMaps : DOMAIN m \subseteq {1} }

\* The peers of that run.
MembersOfOne == UNION { DOMAIN m : m \in MembershipOfOne }

InitBackpressure ==
    \E m0 \in MembershipOfOne :
        InitRunning(EmptyMap, m0,
            [max_dials |-> MaxDials, max_updates |-> MaxUpdates + 1,
             capacity |-> MaxQueued])

NextBackpressure ==
    \/ Tick
    \/ HandleNotification
    \/ \E m \in MembershipOfOne : AdminUpdateEligibleNodes(m)
    \/ \E p \in Peers : TimePasses(p)
    \/ \E p \in Peers, ok \in BOOLEAN : GatewayHandleRequest(p, ok)
    \/ \E p \in Peers : GatewayLost(p)

SpecBackpressure == InitBackpressure /\ [][NextBackpressure]_vars

\* The network with the command channel as built, peer 1 joining and
\* leaving the registry, peer 2 a seed peer or unknown.
InitReconcile ==
    \E seeds \in SeedPeerMaps, m0 \in MembershipOfOne :
        InitRunning(seeds, m0,
            [max_dials |-> MaxDials, max_updates |-> MaxUpdates,
             capacity |-> NETWORK_CHANNEL_SIZE])

SpecReconcile == InitReconcile /\ [][NextBackpressure]_vars

\* The tasks are scheduled again and again: the manager's loop takes every
\* tick and notification, the PeerManager every request.
FairBackpressure ==
    /\ SpecBackpressure
    /\ WF_vars(Tick)
    /\ WF_vars(HandleNotification)
    /\ \A p \in MembersOfOne :
           WF_vars(\E ok \in BOOLEAN : GatewayHandleRequest(p, ok))

\* ---------------------------------------------------- the registry's lock
\* A registry update, *trusted_peers.write().unwrap() = m, next to readers
\* that take the read lock and go through the map entry by entry.

\* RwLock::write can return without the lock being free.
write_lock_unchecked(l) == TRUE

\* RwLock::write returns: nobody writes and nobody reads.
write_lock_free(l) ==
    /\ l.writer.pc = "idle"
    /\ \A r \in Readers : l.readers[r].pc # "reading"

\* RwLock::read returns: nobody writes.
read_lock_free(l) == l.writer.pc = "idle"

\* What a reader finds for peer p in map m.
Entry(m, p) == IF p \in DOMAIN m THEN Some(m[p]) ELSE None
\* A map as a reader that has gone through all of it sees it.
ViewOf(m) == [p \in Peers |-> Entry(m, p)]

\* The update takes the write lock, holding the new map m.
WriteLock(m) ==
    /\ rwlock.writes < MaxWrites
    /\ rwlock.writer.pc = "idle"
    /\ write_lock_free(rwlock)
    /\ rwlock' = [rwlock EXCEPT !.writer = [pc |-> "locked", map |-> m],
                                !.writes = @ + 1]
    /\ UNCHANGED <<registry, cm, cmds, notifs, gw, ghost, env>>
    /\ UNCHANGED buildervars

\* The assignment through the guard: the map is replaced as a whole.  A
\* reader that is going through the map has now been reading during both.
WriteAssign ==
    /\ rwlock.writer.pc = "locked"
    /\ registry' = trusted_peers_write(registry, rwlock.writer.map)
    /\ rwlock' = [rwlock EXCEPT
          !.writer.pc = "assigned",
          !.readers = [r \in Readers |->
              IF @[r].pc = "reading"
              THEN [@[r] EXCEPT !.during = @ \cup {registry'}]
              ELSE @[r]]]
    /\ UNCHANGED <<cm, cmds, notifs, gw, ghost, env>>
    /\ UNCHANGED buildervars

\* The guard is dropped at the end of the statement.
WriteUnlock ==
    /\ rwlock.writer.pc = "assigned"
    /\ rwlock' = [rwlock EXCEPT !.writer = [pc |-> "idle", map |-> EmptyMap]]
    /\ UNCHANGED <<registry, cm, cmds, notifs, gw, ghost, env>>
    /\ UNCHANGED buildervars

\* Reader r takes the read lock and starts on the map.
ReadLock(r) ==
    /\ rwlock.readers[r].pc # "reading"
    /\ read_lock_free(rwlock)
    /\ rwlock' = [rwlock EXCEPT !.readers[r] =
          [pc |-> "reading", view |-> EmptyMap, during |-> {registry}]]
    /\ UNCHANGED <<registry, cm, cmds, notifs, gw, ghost, env>>
    /\ UNCHANGED buildervars

\* Reader r looks at one more entry.
ReadEntry(r, p) ==
    /\ rwlock.readers[r].pc = "reading"
    /\ p \notin DOMAIN rwlock.readers[r].view
    /\ rwlock' = [rwlock EXCEPT !.readers[r].view =
          [q \in DOMAIN @ \cup {p} |->
              IF q = p THEN Entry(registry, p) ELSE @[q]]]
    /\ UNCHANGED <<registry, cm, cmds, notifs, gw, ghost, env>>
    /\ UNCHANGED buildervars

\* Reader r has gone through the map and drops the read lock.
ReadUnlock(r) ==
    /\ rwlock.readers[r].pc = "reading"
    /\ DOMAIN rwlock.readers[r].view = Peers
    /\ rwlock' = [rwlock EXCEPT !.readers[r].pc = "done"]
    /\ UNCHANGED <<registry, cm, cmds, notifs, gw, ghost, env>>
    /\ UNCHANGED buildervars

InitLock ==
    \E m0 \in TrustedPeerMaps :
        InitRunning(EmptyMap, m0, [max_dials |-> 0, max_updates |-> 0,
                                   capacity |-> NETWORK_CHANNEL_SIZE])

NextLock ==
    \/ \E m \in TrustedPeerMaps : WriteLock(m)
    \/ WriteAssign
    \/ WriteUnlock
    \/ \E r \in Readers : ReadLock(r)
    \/ \E r \in Readers, p \in Peers : ReadEntry(r, p)
    \/ \E r \in Readers : ReadUnlock(r)

SpecLock == InitLock /\ [][NextLock]_vars

\* ================================================================== claims
Discoveries == { i \in DOMAIN tasks : tasks[i].kind = "Discovery" }
\* The tasks a step has spawned.
Spawned(kind) ==
    { i \in DOMAIN tasks' : i > Len(tasks) /\ tasks'[i].kind = kind }
\* The shapes build() is documented to accept (segment arguments are free).
SupportedShape(addr) ==
    \/ /\ Len(addr) = 2
       /\ <<addr[1].proto, addr[2].proto>> \in {<<"Ip4", "Tcp">>, <<"Ip6", "Tcp">>}
    \/ Len(addr) = 1 /\ addr[1].proto = "Memory"

\* C1: when authentication_mode(..) was never called, build() ends in the
\* panic "Authentication Mode not set" and the PeerManager is never started;
\* when it was called, build() does not raise that panic and a transport
\* that gets built holds the key and the mode of the last call.
C1_AuthenticationModeRequired ==
    /\ hist.auth = AuthNone => ~pm.started
    /\ (hist.built /\ hist.auth = AuthNone) =>
           /\ phase = "panicked"
           /\ panic = Panic("Authentication Mode not set", 415)
           /\ \A i \in DOMAIN tasks : tasks[i].kind # "PeerManager"
    /\ (hist.built /\ hist.auth # AuthNone) => panic.line # 415
    /\ pm.started =>
           /\ pm.transport.key = hist.auth.key
           /\ pm.transport.trusted_peers.some <=> hist.auth.mode = "Mutual"
\* build() called after other calls, none of them authentication_mode.
C1_Witness ==
    /\ hist.built /\ hist.auth = AuthNone /\ ncalls >= 3
    /\ panic.msg = "Authentication Mode not set"

\* C2: the transport is given the shared registry exactly under Mutual; then
\* no handshake ends in a connection with a remote key that is not in the
\* registry at that moment, and under ServerOnly every inbound handshake
\* is accepted.
C2_TrustBoundary ==
    /\ pm.started =>
           pm.transport.trusted_peers =
               IF hist.auth.mode = "Mutual" THEN Some(ArcHandle) ELSE None
    /\ \A i \in DOMAIN conns :
           /\ (hist.auth.mode = "Mutual" /\ conns[i].connected)
                  => conns[i].in_registry
           /\ (hist.auth.mode = "ServerOnly" /\ conns[i].dir = "inbound")
                  => conns[i].connected
\* Under Mutual, a peer's key was refused on an inbound handshake made after
\* the registry was replaced at run time by a map without that peer.
C2_Witness ==
    /\ hist.auth.mode = "Mutual" /\ ConnectivityManagers # {}
    /\ nsteps = 2 /\ Len(conns) = 1 /\ registry = EmptyMap
    /\ conns[1].dir = "inbound" /\ ~conns[1].connected
    /\ conns[1].remote_key = RemoteKeyOf(1)

\* C3: a call of add_gossip_discovery made when no ConnectivityManager has
\* been added panics with "ConnectivityManager not enabled", spawns nothing
\* and leaves the builder's handlers and subscribers as they were; made
\* after add_connectivity_manager it does not raise that panic, and the
\* Discovery it creates holds the sender of the manager's request channel.
C3_GossipDiscoveryNeedsConnectivityManager ==
    [][ hist'.gossip_calls # hist.gossip_calls =>
          IF ConnectivityManagers = {}
          THEN /\ phase' = "panicked"
               /\ panic' = Panic("ConnectivityManager not enabled", 339)
               /\ tasks' = tasks
               /\ nb'.upstream_handlers = nb.upstream_handlers
               /\ nb'.connection_event_handlers = nb.connection_event_handlers
          ELSE /\ panic'.msg # "ConnectivityManager not enabled"
               /\ \A i \in Spawned("Discovery") :
                      \E j \in ConnectivityManagers :
                          /\ tasks'[i].conn_mgr_reqs_tx = tasks[j].requests_rx
                          /\ \A k \in ConnectivityManagers : k <= j
      ]_vars
\* add_gossip_discovery has panicked for want of a ConnectivityManager.
C3_Witness ==
    /\ hist.gossip_calls = 1 /\ ConnectivityManagers = {}
    /\ panic.msg = "ConnectivityManager not enabled" /\ ncalls >= 2

\* C4: the PeerId build() resolves for the transport is derived from the
\* public key exactly under ServerOnly with the default PeerId configured;
\* otherwise it is the configured one.
C4_IdentityResolution ==
    pm.started =>
        pm.transport.peer_id =
            IF hist.auth.mode = "ServerOnly" /\ nb.peer_id = PeerIdDefault
            THEN from_identity_public_key(x25519_public_key(hist.auth.key))
            ELSE nb.peer_id
\* A ServerOnly node built with the default PeerId.
C4_Witness ==
    /\ pm.started /\ hist.auth.mode = "ServerOnly" /\ nb.peer_id = PeerIdDefault
    /\ pm.transport.peer_id # PeerIdDefault

\* C8 as stated: once build() has run, every started component runs with
\* the value last given to the setter, whatever the order of the calls.
C8_SettersReachComponentsInAnyOrder ==
    phase = "running" =>
        /\ \A i \in ConnectivityManagers :
               /\ tasks[i].connectivity_check_interval_ms
                      = hist.connectivity_check_interval_ms
               /\ tasks[i].seed_peers = hist.seed_peers
        /\ \A i \in Discoveries :
               tasks[i].discovery_interval_ms = hist.discovery_interval_ms

\* C8 amended: a component is constructed with the values the setters had
\* been given when its add_* method was called (the defaults where no
\* setter had been called); a started component never changes; and once
\* build() has run no knob changes.
C8_SettersBeforeAddReachComponents ==
    [][ /\ \A i \in DOMAIN tasks : tasks'[i] = tasks[i]
        /\ \A i \in Spawned("ConnectivityManager") :
               /\ tasks'[i].connectivity_check_interval_ms
                      = hist.connectivity_check_interval_ms
               /\ tasks'[i].seed_peers = hist.seed_peers
        /\ \A i \in Spawned("Discovery") :
               /\ tasks'[i].discovery_interval_ms = hist.discovery_interval_ms
               /\ tasks'[i].addrs =
                      << append_prod_protos(
                             IF hist.advertised_address.some
                                 THEN hist.advertised_address.val
                                 ELSE nb.listen_address,
                             x25519_public_key(hist.auth.key),
                             HANDSHAKE_VERSION) >>
        /\ hist.built =>
               /\ hist' = hist
               /\ nb'.connectivity_check_interval_ms
                      = nb.connectivity_check_interval_ms
               /\ nb'.discovery_interval_ms = nb.discovery_interval_ms
               /\ nb'.seed_peers = nb.seed_peers
               /\ nb'.advertised_address = nb.advertised_address
      ]_vars
\* A running manager that was added before the interval setter was called:
\* it keeps the interval it was constructed with.
C8_Witness ==
    /\ phase = "running"
    /\ \E i \in ConnectivityManagers :
           /\ tasks[i].connectivity_check_interval_ms
                  = CONNECTIVITY_CHECK_INTERNAL_MS
           /\ hist.connectivity_check_interval_ms
                  # CONNECTIVITY_CHECK_INTERNAL_MS

\* C9: the PeerManager is started with one subscriber per registering call
\* made before build(), in order, and with a handler for exactly the
\* protocols registered; nothing is registered after build(); and every
\* subscriber has been sent every connection event.
C9_RegistrationPrecedesStart ==
    /\ [](pm.started =>
            /\ pm.connection_event_handlers = regs
            /\ \A i, j \in DOMAIN regs : regs[i] = regs[j] => i = j
            /\ DOMAIN pm.upstream_handlers = hist.protocols
            /\ \A c \in Range(regs) :
                   /\ c \in DOMAIN delivered
                   /\ delivered[c] =
                          Cardinality({i \in DOMAIN conns : conns[i].connected}))
    /\ [][ hist.built => regs' = regs /\ pm' = pm
                          /\ nb'.upstream_handlers = nb.upstream_handlers
                          /\ nb'.connection_event_handlers
                                 = nb.connection_event_handlers ]_vars
\* A gateway started with two subscribers, each told of a connection.
C9_Witness ==
    /\ pm.started /\ Len(regs) = 2 /\ ConnectivityManagers # {}
    /\ \E i \in DOMAIN conns : conns[i].connected
    /\ \A c \in Range(regs) : delivered[c] >= 1

\* C10 as stated: build() starts the gateway only for the three supported
\* shapes, and for any other shape ends in a panic that names the address.
C10_UnsupportedAddressNamed ==
    hist.built =>
        /\ pm.started => SupportedShape(nb.listen_address)
        /\ ~SupportedShape(nb.listen_address) =>
               /\ phase = "panicked" /\ ~pm.started
               /\ panic.addr = Some(nb.listen_address)

\* C10 amended: build() starts the gateway only for the three supported
\* shapes; for any other shape it panics and starts nothing, and when an
\* authentication mode is set the panic names the address (with none set,
\* the panic is "Authentication Mode not set", raised first).
C10_UnsupportedAddressRejected ==
    hist.built =>
        /\ pm.started => SupportedShape(nb.listen_address)
        /\ ~SupportedShape(nb.listen_address) =>
               /\ phase = "panicked" /\ ~pm.started
               /\ \A i \in DOMAIN tasks : tasks[i].kind # "PeerManager"
               /\ hist.auth # AuthNone =>
                      /\ panic.msg = "Unsupported listen_address"
                      /\ panic.addr = Some(nb.listen_address)
\* build() has refused an address with trailing segments, naming it.
C10_Witness ==
    /\ hist.built /\ Len(nb.listen_address) = 3
    /\ panic.addr = Some(nb.listen_address)

\* A step issues a dial command for peer p.
DialIssued(p) == ghost'.peer[p].dials # ghost.peer[p].dials
\* The delay applied to the dial a step has just issued for peer p.
DelayApplied(p) == cm'.records[p].delay

\* C5: once a dial command for peer P has been issued and P's record is
\* Dialing, no step of the manager (tick, eligibility update, notification
\* about any peer) issues another dial command for P before a connect or
\* disconnect notification for P has been handled; a step issues at most
\* one dial command per peer.
C5_NoDuplicateDials ==
    [][\A p \in Peers :
          DialIssued(p) =>
              /\ ~ghost.peer[p].outstanding
              /\ ~(p \in DOMAIN cm.records /\ cm.records[p].state = "Dialing")
              /\ ghost'.peer[p].dials = ghost.peer[p].dials + 1
              /\ cm'.records[p].state = "Dialing"]_vars
\* A tick has passed over a peer whose only dial is still outstanding.
C5_Witness ==
    \E p \in Peers :
        /\ ghost.peer[p].passed /\ ghost.peer[p].outstanding
        /\ ghost.peer[p].dials = 1
        /\ p \in DOMAIN cm.records /\ cm.records[p].state = "Dialing"

C11_RegistryReplacedAndShared ==
    /\ registry = ghost.written
    /\ \A p \in ghost.evicted : p \notin DOMAIN registry
    /\ \A i \in ConnectivityManagers :
           Deref(tasks[i].trusted_peers) = ghost.written
    /\ (pm.started /\ pm.transport.trusted_peers.some) =>
           Deref(pm.transport.trusted_peers.val) = ghost.written
\* A ConnectivityManager was added, and then trusted_peers replaced a map
\* by one without one of its peers.
C11_Witness ==
    /\ ghost.holders >= 1 /\ ghost.evicted # {} /\ ghost.written # EmptyMap
    /\ \E i \in ConnectivityManagers :
           DOMAIN Deref(tasks[i].trusted_peers) = DOMAIN ghost.written

\* C12: whatever the interleaving of a registry update with the readers,
\* what a reader has seen by the time it drops the read lock is one whole
\* map the registry held while it was reading (the map before the update or
\* the map after it), never some entries of one and some of the other; and
\* no update is under way while a reader is going through the map.
C12_SnapshotAtomicity ==
    /\ \A r \in Readers :
           rwlock.readers[r].pc = "done" =>
               \E m \in rwlock.readers[r].during :
                   rwlock.readers[r].view = ViewOf(m)
    /\ \A r \in Readers :
           rwlock.readers[r].pc = "reading" => rwlock.writer.pc = "idle"
\* Two updates with different maps have been made, a reader has been through
\* the whole of the second one, and the other reader is half way.
C12_Witness ==
    /\ rwlock.writes = 2 /\ rwlock.writer.pc = "idle"
    /\ DOMAIN registry = {1}
    /\ rwlock.readers["pass"].pc = "done"
    /\ rwlock.readers["pass"].view = ViewOf(registry)
    /\ rwlock.readers["handshake"].pc = "reading"
    /\ DOMAIN rwlock.readers["handshake"].view = {1}

\* The manager handles a notification of this kind about peer p in a step.
Handled(kind, p) ==
    /\ notifs # <<>> /\ notifs' = Tail(notifs)
    /\ Head(notifs) = [kind |-> kind, peer |-> p]

\* C13: a connect notification about a peer that is still desired makes its
\* record Connected with the backoff cursor back at the start, so the first
\* dial after a later disconnect waits the base delay (2 ms x 1000), however
\* far the delay had grown before; a disconnect notification about a peer
\* that stays desired leaves the cursor as it is.
C13_BackoffResetOnSuccess ==
    [][\A p \in Peers :
          /\ (Handled("NewPeer", p) /\ p \in Desired(cm)) =>
                 /\ cm'.records[p].state = "Connected"
                 /\ cm'.records[p].backoff = cm.args.backoff_strategy
          /\ (DialIssued(p) /\ ghost.peer[p].reset) =>
                 DelayApplied(p) = U64(cm.args.backoff_strategy.base
                                       * cm.args.backoff_strategy.factor)
          /\ (Handled("LostPeer", p) /\ p \in Desired(cm)
                                     /\ p \in DOMAIN cm.records) =>
                 cm'.records[p].backoff = cm.records[p].backoff]_vars
\* A peer failed once, connected on the second dial (delay 4000 ms), was
\* lost, and its third dial waits 2000 ms.
C13_Witness ==
    \E p \in Peers :
        /\ ghost.peer[p].grown
        /\ ghost.peer[p].dials = 3 /\ ghost.peer[p].prev = U64(2000)
        /\ p \in DOMAIN cm.records /\ cm.records[p].state = "Dialing"

\* A reconciliation pass runs in a step.
PassRan ==
    /\ ghost'.peer # ghost.peer
    /\ ghost'.updates = ghost.updates /\ notifs' = notifs
\* Peer p is due a dial / a disconnect in the pass that comes next.
DialDue(p) ==
    /\ p \in Desired(cm)
    /\ p \in DOMAIN cm.records =>
           cm.records[p].state = "NotConnected" /\ ~cm.records[p].waiting
DisconnectDue(p) ==
    /\ p \notin Desired(cm)
    /\ p \in DOMAIN cm.records /\ cm.records[p].state = "Connected"
\* A command for peer p is on its way to the PeerManager, or a notification
\* about p on its way back.
InFlight(p) ==
    \/ cmds[p] # <<>>
    \/ \E i \in 1..Len(notifs) : notifs[i].peer = p
\* The dial budget of the run does not allow the next pass.
OutOfDials ==
    DialsIssued + Cardinality({ p \in Peers : DialDue(p) /\ ~full(cm, cmds[p]) })
        > env.max_dials

\* C14: a full command channel never stops the loop and never loses work.
\* The tick is taken whatever the state of the channel; the pass places
\* the command of every peer whose queue has room and skips the others,
\* leaving a skipped peer's record and queue as they were, so that the peer
\* is still due; a record is Dialing only while its dial or the answer to it
\* is under way; every skipped command is placed by a later pass unless it
\* is no longer due, and no record stays Dialing forever.
C14_BackpressureNeverStalls ==
    /\ [](cm.started /\ ~OutOfDials => ENABLED Tick)
    /\ [][PassRan => \A p \in Peers :
             /\ (DialDue(p) /\ ~full(cm, cmds[p])) =>
                    /\ cmds'[p] = Append(cmds[p], DialPeer(p))
                    /\ cm'.records[p].state = "Dialing"
             /\ (DialDue(p) /\ full(cm, cmds[p])) =>
                    /\ cmds'[p] = cmds[p]
                    /\ cm'.records[p] = with_lazy_records(cm)[p]
                    /\ ghost'.peer[p].dials = ghost.peer[p].dials
             /\ (DisconnectDue(p) /\ ~full(cm, cmds[p])) =>
                    cmds'[p] = Append(cmds[p], DisconnectPeer(p))
             /\ (DisconnectDue(p) /\ full(cm, cmds[p])) =>
                    /\ cmds'[p] = cmds[p]
                    /\ cm'.records[p] = cm.records[p]]_vars
    /\ [](\A p \in DOMAIN cm.records :
             cm.records[p].state = "Dialing" => InFlight(p))
    /\ \A p \in MembersOfOne :
           (ghost.peer[p].deferred \in {"dial", "disc"})
               ~> (ghost.peer[p].deferred \in {"none", "placed"} \/ OutOfDials)
    /\ \A p \in MembersOfOne :
           (p \in DOMAIN cm.records /\ cm.records[p].state = "Dialing")
               ~> ~(p \in DOMAIN cm.records /\ cm.records[p].state = "Dialing")
\* A pass skipped the dial of a peer whose queue was full, the PeerManager
\* then took the request that filled the queue, and the next pass placed
\* the dial.
C14_Witness ==
    \E p \in Peers :
        /\ ghost.peer[p].deferred = "placed"
        /\ p \in DOMAIN cm.records /\ cm.records[p].state = "Dialing"
        /\ cmds[p] = <<DialPeer(p)>>

\* What a pass does about dials: a dial command for exactly the peers that
\* are due, one each, at the end of the peer's queue, the record Dialing.
DialsWhatIsDue ==
    \A p \in Peers :
        /\ DialIssued(p) <=> DialDue(p)
        /\ DialIssued(p) =>
               /\ ghost'.peer[p].dials = ghost.peer[p].dials + 1
               /\ cmds'[p] = Append(cmds[p], DialPeer(p))
               /\ cm'.records[p].state = "Dialing"

\* C15: in every state of the running manager the tick can be taken, and
\* the pass it starts issues exactly one dial command for each peer of the
\* Desired Peer Set (registry peers and seed peers) whose record is
\* NotConnected with the retry time reached, or that has no record yet, and
\* for no other peer, and makes the record Dialing.  A peer that keeps
\* failing is never abandoned: the disconnect notification of a desired
\* peer leaves its record NotConnected, the retry time of such a record is
\* always reached, and the peer is then due again.
C15_ReconciliationDialsDesired ==
    /\ (cm.started /\ ~OutOfDials) => ENABLED (Tick /\ DialsWhatIsDue)
    /\ \A p \in Peers :
           ( /\ notifs # <<>> /\ Head(notifs) = LostPeer(p)
             /\ p \in Desired(cm) /\ p \in DOMAIN cm.records ) =>
               ENABLED ( /\ HandleNotification
                         /\ p \in DOMAIN cm'.records
                         /\ cm'.records[p].state = "NotConnected" )
    /\ \A p \in DOMAIN cm.records :
           (cm.records[p].state = "NotConnected" /\ cm.records[p].waiting) =>
               ENABLED ( /\ TimePasses(p)
                         /\ p \in Desired(cm) => DialDue(p)' )
\* A peer failed twice and has been dialed a third time, with delays 2000,
\* 4000 and 8000 ms.
C15_Witness ==
    \E p \in Peers :
        /\ ghost.peer[p].dials = 3 /\ ghost.peer[p].prev = U64(8000)
        /\ p \in DOMAIN cm.records /\ cm.records[p].state = "Dialing"
        /\ cmds[p] = <<DialPeer(p)>>

\* C16 as stated: no component task is started before build() has checked
\* the configuration, and none is running when build() has ended in a
\* configuration error.
C16_NoComponentBeforeValidation ==
    /\ ~hist.built => tasks = <<>>
    /\ phase = "panicked" => tasks = <<>>

\* C16 amended: the PeerManager is started by build() only, after the
\* authentication mode and the listen address have been checked, and it is
\* the last task started; when a builder call has ended in a configuration
\* error no PeerManager is running.  (The other components are started by
\* their add_* calls and are running whatever build() does.)
C16_PeerManagerOnlyAfterValidation ==
    /\ \A i \in DOMAIN tasks :
           tasks[i].kind = "PeerManager" =>
               /\ i = Len(tasks)
               /\ hist.built /\ pm.started /\ phase = "running"
               /\ hist.auth # AuthNone
               /\ SupportedShape(nb.listen_address)
    /\ pm.started => \E i \in DOMAIN tasks : tasks[i].kind = "PeerManager"
    /\ phase = "panicked" =>
           /\ ~pm.started
           /\ \A i \in DOMAIN tasks : tasks[i].kind # "PeerManager"
\* build() has refused the listen address while a ConnectivityManager added
\* before it is running.
C16_Witness ==
    /\ hist.built /\ phase = "panicked"
    /\ panic.msg = "Unsupported listen_address"
    /\ ConnectivityManagers # {} /\ ~pm.started

\* C17: once build() has started the PeerManager, the PeerId of the
\* transport (the one used in the handshake), the PeerId of the PeerManager
\* and the PeerId of every ConnectivityManager and Discovery added before
\* are one and the same value.
C17_SingleNodeIdentity ==
    pm.started =>
        /\ pm.peer_id = pm.transport.peer_id
        /\ \A i \in ConnectivityManagers \cup Discoveries :
               tasks[i].peer_id = pm.transport.peer_id

\* The protocols a step's registration lists: what it appends to the
\* builder's two protocol lists.
ListedInStep ==
    { nb'.rpc_protocols[i] :
          i \in (Len(nb.rpc_protocols) + 1)..Len(nb'.rpc_protocols) }
    \cup { nb'.direct_send_protocols[i] :
          i \in (Len(nb.direct_send_protocols) + 1)
                    ..Len(nb'.direct_send_protocols) }

\* C18: the protocols the builder would advertise are at every moment
\* exactly those with an upstream handler, and so are the protocols the
\* transport advertises and the PeerManager routes once build() has run;
\* every registration routes each protocol it lists to its own new channel
\* and to that channel only, taking the protocol away from the handler that
\* had it, and leaves every other protocol where it was; build() hands the
\* PeerManager the routes as they are.
C18_AdvertisedProtocolsAreRouted ==
    /\ [](/\ supported_protocols(nb) = DOMAIN nb.upstream_handlers
          /\ pm.started =>
                 /\ pm.transport.supported_protocols = DOMAIN pm.upstream_handlers
                 /\ pm.upstream_handlers = nb.upstream_handlers
                 /\ DOMAIN pm.upstream_handlers = hist.protocols)
    /\ [][ nb' # nb =>
           /\ Len(nb'.rpc_protocols) >= Len(nb.rpc_protocols)
           /\ Len(nb'.direct_send_protocols) >= Len(nb.direct_send_protocols)
           /\ DOMAIN nb'.upstream_handlers
                 = DOMAIN nb.upstream_handlers \cup ListedInStep
           /\ \A p \in ListedInStep :
                  /\ nb'.upstream_handlers[p] = nb.next_channel
                  /\ \A q \in DOMAIN nb.upstream_handlers :
                         nb.upstream_handlers[q] # nb.next_channel
           /\ \A p \in DOMAIN nb.upstream_handlers \ ListedInStep :
                  nb'.upstream_handlers[p] = nb.upstream_handlers[p]
         ]_vars
\* Two handlers were registered for ConsensusRpc, the second also for
\* MempoolDirectSend; the PeerManager routes both protocols to the second.
C18_Witness ==
    /\ pm.started
    /\ nb.rpc_protocols = <<"ConsensusRpc", "ConsensusRpc">>
    /\ nb.direct_send_protocols = <<"MempoolDirectSend">>
    /\ pm.upstream_handlers["ConsensusRpc"] = 3
    /\ pm.upstream_handlers["MempoolDirectSend"] = 3
    /\ pm.transport.supported_protocols = {"ConsensusRpc", "MempoolDirectSend"}

==============================================================================
